---- MODULE Spec2Model ----
(***************************************************************************)
(* Predictor component reconciler and multi-model ConfigMap reconciler of  *)
(* kfserving (pkg/controller/v1beta1/inferenceservice/components).         *)
(*                                                                         *)
(* One Reconcile invocation is followed through the positions of its body: *)
(*   Idle -> AnnotationsBuilt -> ContainerBuilt -> PortsPatched            *)
(*        -> OwnershipEstablished -> Idle (returned nil or an error)       *)
(* Pointers are modelled as sequences of length at most one (Nil, <<v>>),  *)
(* maps as functions over their key set.                                   *)
(***************************************************************************)
EXTENDS Integers, Sequences, FiniteSets, TLC

VARIABLES
    ServiceAnnotationDisallowedList, \* constants.ServiceAnnotationDisallowedList
    watched,     \* parents the control loop invokes Reconcile for
    isvc,        \* the in-memory InferenceService of every parent
    pc,          \* position of the parent's Reconcile invocation
    local,       \* local variables of the running invocation
    result,      \* what the last finished invocation returned
    passes,      \* invocations started so far
    hist,        \* observations of the running and the previous invocation
    configMaps,  \* the API server's ConfigMaps, by key
    cmCalls,     \* client calls issued by ConfigMapReconciler.Reconcile
    cmLog        \* finished ConfigMapReconciler.Reconcile invocations

vars == <<ServiceAnnotationDisallowedList, watched, isvc, pc, local, result,
          passes, hist, configMaps, cmCalls, cmLog>>

predictorVars == <<ServiceAnnotationDisallowedList, watched, isvc, pc, local,
                   result, passes, hist>>

configMapVars == <<configMaps, cmCalls, cmLog>>

----------------------------------------------------------------------------
(* Bounds *)

\* Reconcile invocations per parent
MaxPasses == 2

\* invocations per parent during which the collaborators may still fail
MaxFailures == 1

\* ConfigMapReconciler.Reconcile invocations
MaxConfigMapCalls == 3

----------------------------------------------------------------------------
(* Pointers and maps *)

Nil == <<>>

Some(v) == <<v>>

Deref(ptr) == ptr[1]

EmptyMap == [k \in {} |-> ""]

MapSet(m, key, value) ==
    [k \in DOMAIN m \cup {key} |-> IF k = key THEN value ELSE m[k]]

HasKey(m, key) == key \in DOMAIN m

----------------------------------------------------------------------------
(* pkg/constants *)

StorageInitializerSourceUriInternalAnnotationKey ==
    "internal.serving.kubeflow.org/storage-initializer-sourceuri"

LoggerInternalAnnotationKey == "internal.serving.kubeflow.org/logger"

LoggerSinkUrlInternalAnnotationKey ==
    "internal.serving.kubeflow.org/logger-sink-url"

LoggerModeInternalAnnotationKey == "internal.serving.kubeflow.org/logger-mode"

BatcherInternalAnnotationKey == "internal.serving.kubeflow.org/batcher"

BatcherMaxBatchSizeInternalAnnotationKey ==
    "internal.serving.kubeflow.org/batcher-max-batchsize"

BatcherMaxLatencyInternalAnnotationKey ==
    "internal.serving.kubeflow.org/batcher-max-latency"

BatcherTimeoutInternalAnnotationKey ==
    "internal.serving.kubeflow.org/batcher-timeout"

InferenceServicePodLabelKey == "serving.kubeflow.org/inferenceservice"

KServiceComponentLabel == "component"

PredictorComponent == "predictor"

\* The port constants are strings, parsed by strconv.Atoi where they are used.
InferenceServiceDefaultLoggerPort == <<"9", "0", "8", "1">>

InferenceServiceDefaultBatcherPort == <<"9", "0", "8", "2">>

MinScaleAnnotationKey == "autoscaling.knative.dev/minScale"

MaxScaleAnnotationKey == "autoscaling.knative.dev/maxScale"

\* The disallow-list is defined in pkg/constants; the reconciler only reads
\* it.  It holds the autoscaling keys, which the reconciler never writes, and
\* is modelled both without and with the storage-initializer source-URI key,
\* which the reconciler writes itself.
DisallowedLists ==
    { {MinScaleAnnotationKey, MaxScaleAnnotationKey},
      {MinScaleAnnotationKey, MaxScaleAnnotationKey,
       StorageInitializerSourceUriInternalAnnotationKey} }

----------------------------------------------------------------------------
(* strconv *)

DigitChar(d) ==
    CASE d = 0 -> "0" [] d = 1 -> "1" [] d = 2 -> "2" [] d = 3 -> "3"
      [] d = 4 -> "4" [] d = 5 -> "5" [] d = 6 -> "6" [] d = 7 -> "7"
      [] d = 8 -> "8" [] d = 9 -> "9"

DigitValue(c) ==
    CASE c = "0" -> 0 [] c = "1" -> 1 [] c = "2" -> 2 [] c = "3" -> 3
      [] c = "4" -> 4 [] c = "5" -> 5 [] c = "6" -> 6 [] c = "7" -> 7
      [] c = "8" -> 8 [] c = "9" -> 9

RECURSIVE FormatUint(_)
FormatUint(n) ==
    IF n < 10 THEN DigitChar(n) ELSE FormatUint(n \div 10) \o DigitChar(n % 10)

\* strconv.Itoa: the decimal string of an int
Itoa(n) == IF n < 0 THEN "-" \o FormatUint(0 - n) ELSE FormatUint(n)

RECURSIVE ParseUint(_, _)
ParseUint(chars, acc) ==
    IF chars = <<>> THEN acc
    ELSE ParseUint(Tail(chars), 10 * acc + DigitValue(Head(chars)))

\* strconv.Atoi of a string of decimal digits (given as its characters)
Atoi(chars) == ParseUint(chars, 0)

----------------------------------------------------------------------------
(* pkg/utils *)

\* utils.Includes(slice, value)
Includes(list, key) == key \in list

\* utils.Filter(origin, predicate): a new map with the keys the predicate
\* keeps (the predicate is given as a function over the keys of origin)
Filter(origin, predicate) ==
    [k \in {x \in DOMAIN origin : predicate[x]} |-> origin[k]]

\* utils.Union(maps...): a new map, later maps overriding earlier ones
Union(m1, m2) ==
    [k \in DOMAIN m1 \cup DOMAIN m2 |-> IF k \in DOMAIN m2 THEN m2[k] ELSE m1[k]]

----------------------------------------------------------------------------
(* Inputs: the parents the control loop may hand to Reconcile *)

Parents == {"isvc-a", "isvc-b"}

NamespaceOf(p) == IF p = "isvc-a" THEN "default" ELSE "prod"

\* labels and annotations of the parent's ObjectMeta
ParentMetas ==
    { [Labels |-> EmptyMap, Annotations |-> EmptyMap],
      [Labels |-> [k \in {"team"} |-> "ml"],
       Annotations |-> [k \in {MinScaleAnnotationKey, "team"} |->
                          IF k = "team" THEN "ml" ELSE "1"]],
      [Labels |-> [k \in {InferenceServicePodLabelKey} |-> "someone-else"],
       Annotations |->
          [k \in {StorageInitializerSourceUriInternalAnnotationKey,
                  LoggerSinkUrlInternalAnnotationKey} |->
             IF k = StorageInitializerSourceUriInternalAnnotationKey
             THEN "gs://user-annotation" ELSE "http://user-sink"]],
      [Labels |-> [k \in {KServiceComponentLabel, "team"} |->
                     IF k = "team" THEN "ml" ELSE "transformer"],
       Annotations |->
          [k \in {BatcherMaxBatchSizeInternalAnnotationKey,
                  BatcherTimeoutInternalAnnotationKey,
                  LoggerModeInternalAnnotationKey} |->
             IF k = BatcherMaxBatchSizeInternalAnnotationKey THEN "999"
             ELSE IF k = BatcherTimeoutInternalAnnotationKey THEN "5"
             ELSE "user-mode"]] }

\* v1.Container, reduced to the fields the reconciler and its collaborators use
UserContainer == [Name |-> "user-model", Image |-> "user/model:1",
                  Ports |-> <<>>, StorageUriEnv |-> Nil]

UserContainerWithPort == [Name |-> "user-model", Image |-> "user/model:1",
                          Ports |-> <<8080>>,
                          StorageUriEnv |-> Some("s3://custom-model")]

SidecarContainer == [Name |-> "user-sidecar", Image |-> "user/sidecar:1",
                     Ports |-> <<9000>>, StorageUriEnv |-> Nil]

\* v1.PodTemplateSpec of a CustomPredictor
PodTemplate(containers, volumes, serviceAccountName) ==
    [Containers |-> containers, Volumes |-> volumes,
     ServiceAccountName |-> serviceAccountName]

\* the implementation variants a PredictorSpec arrives with: one builtin
\* runtime, or a custom pod template
PredictorVariants ==
    { [Builtin |-> Some([Framework |-> "sklearn", StorageURI |-> Nil]),
       Custom |-> Nil],
      [Builtin |-> Some([Framework |-> "sklearn",
                         StorageURI |-> Some("gs://bucket/model")]),
       Custom |-> Nil],
      [Builtin |-> Nil,
       Custom |-> Some(PodTemplate(<<UserContainer>>, {}, ""))],
      [Builtin |-> Nil,
       Custom |-> Some(PodTemplate(<<UserContainerWithPort, SidecarContainer>>,
                                   {"model-volume"}, "model-sa"))],
      [Builtin |-> Nil,
       Custom |-> Some(PodTemplate(<<>>, {"model-volume"}, "model-sa"))] }

LoggerSpecs ==
    { Nil,
      Some([URL |-> Nil, Mode |-> "request"]),
      Some([URL |-> Some("http://sink.default/"), Mode |-> "all"]) }

BatcherSpecs ==
    { Nil,
      Some([MaxBatchSize |-> Nil, MaxLatency |-> Nil, Timeout |-> Nil]),
      Some([MaxBatchSize |-> Some(32), MaxLatency |-> Some(100),
            Timeout |-> Some(60)]),
      Some([MaxBatchSize |-> Some(7), MaxLatency |-> Nil, Timeout |-> Some(0)]),
      Some([MaxBatchSize |-> Nil, MaxLatency |-> Some(-1), Timeout |-> Nil]) }

\* ComponentStatusSpec snapshots
EmptyStatus == "(none)"

DelegateStatuses == {"Ready", "NotReady"}

PriorStatuses == {EmptyStatus, "Ready"}

\* return values: nothing returned yet, a nil error, errors of the collaborators
NotRun == "(not run)"

ReturnedNil == "nil"

ErrSetControllerReference == "SetControllerReference: object already owned"

ErrDelegateReconcile == "ksvc reconcile: conflict"

ErrAlreadyExists == "configmaps already exists"

ErrCreateFailed == "configmaps create: server unavailable"

InferenceServices(p) ==
    { [Name |-> p, Namespace |-> NamespaceOf(p),
       Labels |-> m.Labels, Annotations |-> m.Annotations,
       Builtin |-> v.Builtin, Custom |-> v.Custom,
       Logger |-> l, Batcher |-> b, Status |-> s] :
      m \in ParentMetas, v \in PredictorVariants, l \in LoggerSpecs,
      b \in BatcherSpecs, s \in PriorStatuses }

DefaultInferenceService(p) ==
    [Name |-> p, Namespace |-> NamespaceOf(p),
     Labels |-> EmptyMap, Annotations |-> EmptyMap,
     Builtin |-> Some([Framework |-> "sklearn", StorageURI |-> Nil]),
     Custom |-> Nil, Logger |-> Nil, Batcher |-> Nil, Status |-> EmptyStatus]

----------------------------------------------------------------------------
(* The predictor implementation (pkg/apis/serving/v1beta1) *)

\* PredictorSpec.GetImplementation: the builtin runtime when one is set,
\* else the custom predictor
GetImplementation(svc) == IF svc.Builtin # Nil THEN "builtin" ELSE "custom"

\* ComponentImplementation.GetStorageUri: the runtime's storage URI; for a
\* custom predictor the storage URI its first container carries, if any
GetStorageUri(svc, predictor) ==
    IF predictor = "builtin" THEN Deref(svc.Builtin).StorageURI
    ELSE IF svc.Custom = Nil \/ Len(Deref(svc.Custom).Containers) = 0 THEN Nil
    ELSE Deref(svc.Custom).Containers[1].StorageUriEnv

\* ComponentImplementation.GetContainer: a ready-to-run container built from
\* the runtime (no ports declared); for a custom predictor its first container
GetContainer(svc, predictor) ==
    IF predictor = "builtin"
    THEN [Name |-> "kfserving-container",
          Image |-> Deref(svc.Builtin).Framework \o "server:latest",
          Ports |-> <<>>, StorageUriEnv |-> Nil]
    ELSE Deref(svc.Custom).Containers[1]

----------------------------------------------------------------------------
(* Predictor.Reconcile and its helpers *)

\* a variant that hands the parent's annotations on unfiltered
UnfilteredAnnotations(svc, disallowed) == svc.Annotations

\* annotations of the parent without the disallowed keys
FilteredAnnotations(svc, disallowed) ==
    Filter(svc.Annotations,
           [key \in DOMAIN svc.Annotations |-> ~Includes(disallowed, key)])

\* a variant that leaves a storage-initializer annotation of the parent alone
WithStorageUriKeepsExisting(annotations, sourceURI) ==
    IF /\ sourceURI # Nil
       /\ ~HasKey(annotations, StorageInitializerSourceUriInternalAnnotationKey)
    THEN MapSet(annotations, StorageInitializerSourceUriInternalAnnotationKey,
                Deref(sourceURI))
    ELSE annotations

\* the storage-initializer annotation, set when the predictor has a source URI
WithStorageUri(annotations, sourceURI) ==
    IF sourceURI # Nil
    THEN MapSet(annotations, StorageInitializerSourceUriInternalAnnotationKey,
                Deref(sourceURI))
    ELSE annotations

\* a variant in which the synthesized map is the parent's own map
ParentAnnotationsAliased(svc, synthesized) == synthesized

\* the parent's annotation map once lines 62-66 have written the synthesized
\* map: the writes go to the copy that utils.Filter returned
ParentAnnotations(svc, synthesized) == svc.Annotations

\* addLoggerAnnotations: the annotation map it leaves and the flag it returns
addLoggerAnnotations(logger, annotations) ==
    IF logger # Nil
    THEN LET a1 == MapSet(annotations, LoggerInternalAnnotationKey, "true")
             a2 == IF Deref(logger).URL # Nil
                   THEN MapSet(a1, LoggerSinkUrlInternalAnnotationKey,
                               Deref(Deref(logger).URL))
                   ELSE a1
             a3 == MapSet(a2, LoggerModeInternalAnnotationKey,
                          Deref(logger).Mode)
         IN  [annotations |-> a3, present |-> TRUE]
    ELSE [annotations |-> annotations, present |-> FALSE]

\* a variant that writes the timeout under the max-latency key
addBatcherAnnotationsSwapped(batcher, annotations) ==
    IF batcher # Nil
    THEN LET b  == Deref(batcher)
             a1 == MapSet(annotations, BatcherInternalAnnotationKey, "true")
             a2 == IF b.MaxBatchSize # Nil
                   THEN MapSet(a1, BatcherMaxBatchSizeInternalAnnotationKey,
                               Itoa(Deref(b.MaxBatchSize)))
                   ELSE a1
             a3 == IF b.MaxLatency # Nil
                   THEN MapSet(a2, BatcherMaxLatencyInternalAnnotationKey,
                               Itoa(Deref(b.MaxLatency)))
                   ELSE a2
             a4 == IF b.Timeout # Nil
                   THEN MapSet(a3, BatcherMaxLatencyInternalAnnotationKey,
                               Itoa(Deref(b.Timeout)))
                   ELSE a3
         IN  [annotations |-> a4, present |-> TRUE]
    ELSE [annotations |-> annotations, present |-> FALSE]

\* addBatcherAnnotations: the annotation map it leaves and the flag it returns
addBatcherAnnotations(batcher, annotations) ==
    IF batcher # Nil
    THEN LET b  == Deref(batcher)
             a1 == MapSet(annotations, BatcherInternalAnnotationKey, "true")
             a2 == IF b.MaxBatchSize # Nil
                   THEN MapSet(a1, BatcherMaxBatchSizeInternalAnnotationKey,
                               Itoa(Deref(b.MaxBatchSize)))
                   ELSE a1
             a3 == IF b.MaxLatency # Nil
                   THEN MapSet(a2, BatcherMaxLatencyInternalAnnotationKey,
                               Itoa(Deref(b.MaxLatency)))
                   ELSE a2
             a4 == IF b.Timeout # Nil
                   THEN MapSet(a3, BatcherTimeoutInternalAnnotationKey,
                               Itoa(Deref(b.Timeout)))
                   ELSE a3
         IN  [annotations |-> a4, present |-> TRUE]
    ELSE [annotations |-> annotations, present |-> FALSE]

\* a variant that replaces the declared ports by the logger port
addLoggerContainerPortOverwrites(container) ==
    [container EXCEPT !.Ports = <<Atoi(InferenceServiceDefaultLoggerPort)>>]

\* a variant that adds the logger port whatever ports are declared
addLoggerContainerPortAppends(container) ==
    [container EXCEPT
        !.Ports = Append(@, Atoi(InferenceServiceDefaultLoggerPort))]

\* addLoggerContainerPort: the container it leaves
addLoggerContainerPort(container) ==
    IF Len(container.Ports) = 0
    THEN [container EXCEPT !.Ports = <<Atoi(InferenceServiceDefaultLoggerPort)>>]
    ELSE container

\* addBatcherContainerPort: the container it leaves
addBatcherContainerPort(container) ==
    IF Len(container.Ports) = 0
    THEN [container EXCEPT !.Ports = <<Atoi(InferenceServiceDefaultBatcherPort)>>]
    ELSE container

\* a variant that keeps the annotation map in a field of the reconciler, shared
\* by the passes of every parent
ObjectMetaSharedAnnotations(svc, annotations) ==
    [Name |-> svc.Name \o "-" \o PredictorComponent,
     Namespace |-> svc.Namespace,
     Labels |-> Union(svc.Labels,
                      [k \in {InferenceServicePodLabelKey, KServiceComponentLabel}
                         |-> IF k = InferenceServicePodLabelKey THEN svc.Name
                             ELSE PredictorComponent]),
     Annotations |->
        [k \in DOMAIN annotations
                  \cup UNION {DOMAIN local[q].annotations : q \in Parents} |->
           IF k \in DOMAIN annotations THEN annotations[k]
           ELSE local[CHOOSE q \in Parents :
                         k \in DOMAIN local[q].annotations].annotations[k]]]

\* a variant in which the parent's labels override the system labels
ObjectMetaParentLabelsWin(svc, annotations) ==
    [Name |-> svc.Name \o "-" \o PredictorComponent,
     Namespace |-> svc.Namespace,
     Labels |-> Union([k \in {InferenceServicePodLabelKey, KServiceComponentLabel}
                         |-> IF k = InferenceServicePodLabelKey THEN svc.Name
                             ELSE PredictorComponent],
                      svc.Labels),
     Annotations |-> annotations]

\* metav1.ObjectMeta of the desired object
ObjectMeta(svc, annotations) ==
    [Name |-> svc.Name \o "-" \o PredictorComponent,
     Namespace |-> svc.Namespace,
     Labels |-> Union(svc.Labels,
                      [k \in {InferenceServicePodLabelKey, KServiceComponentLabel}
                         |-> IF k = InferenceServicePodLabelKey THEN svc.Name
                             ELSE PredictorComponent]),
     Annotations |-> annotations]

\* whether installing the container indexes past the end of the container list
ContainerIndexOutOfRange(svc) ==
    svc.Custom # Nil /\ Len(Deref(svc.Custom).Containers) = 0

\* a variant that always starts a new single-container pod template
InstallContainerFreshTemplate(svc, container) ==
    Some(PodTemplate(<<container>>, {}, ""))

\* the Custom field after the built container is installed
InstallContainer(svc, container) ==
    IF svc.Custom = Nil
    THEN Some(PodTemplate(<<container>>, {}, ""))
    ELSE Some([Deref(svc.Custom) EXCEPT !.Containers[1] = container])

\* the Custom field after the sidecar ports are patched into container[0]
PatchPorts(custom, hasInferenceLogging, hasInferenceBatcher) ==
    LET c0 == Deref(custom).Containers[1]
        c1 == IF hasInferenceLogging THEN addLoggerContainerPort(c0) ELSE c0
        c2 == IF hasInferenceBatcher THEN addBatcherContainerPort(c1) ELSE c1
    IN  Some([Deref(custom) EXCEPT !.Containers[1] = c2])

\* Status.PropagateStatus(component, status)
PropagateStatus(svc, status) == [svc EXCEPT !.Status = status]

\* controllerutil.SetControllerReference(owner, object, scheme): the error it
\* returns and the object it leaves
SetControllerReference(owner, object, fails) ==
    IF fails THEN [err |-> ErrSetControllerReference, object |-> object]
    ELSE [err |-> ReturnedNil,
          object |-> [object EXCEPT !.OwnerReferences = {owner.Name}]]

\* a variant that goes on to the delegate whatever the error
IgnoresOwnershipError(err) == FALSE

\* lines 106-108: Reconcile returns when the owner reference could not be set
ReturnsOnOwnershipError(err) == err # ReturnedNil

\* a variant that logs the delegate's error and reports success
AfterDelegateSwallowsError(svc, status, err) ==
    [svc |-> PropagateStatus(svc, status), ret |-> ReturnedNil]

\* a variant that propagates the returned status before looking at the error
AfterDelegatePropagatesOnError(svc, status, err) ==
    [svc |-> PropagateStatus(svc, status), ret |-> err]

\* lines 109-114: the parent and the return value after r.Reconcile()
\* returned (status, err)
AfterDelegate(svc, status, err) ==
    IF err # ReturnedNil THEN [svc |-> svc, ret |-> err]
    ELSE [svc |-> PropagateStatus(svc, status), ret |-> ReturnedNil]

----------------------------------------------------------------------------
(* State *)

ZeroObjectMeta ==
    [Name |-> "", Namespace |-> "", Labels |-> EmptyMap, Annotations |-> EmptyMap]

ZeroLocal ==
    [predictor |-> "", annotations |-> EmptyMap,
     hasInferenceLogging |-> FALSE, hasInferenceBatcher |-> FALSE,
     objectMeta |-> ZeroObjectMeta, r |-> Nil]

ZeroHist(svc) ==
    [entry |-> svc, annotationsBeforeBatcher |-> EmptyMap, built |-> Nil,
     desired |-> Nil, prevDesired |-> Nil, ownerErr |-> Nil,
     delegateCalls |-> 0, delegateReturned |-> Nil]

InitWith(toWatch, services) ==
    /\ ServiceAnnotationDisallowedList \in DisallowedLists
    /\ watched = toWatch
    /\ isvc = services
    /\ pc = [p \in Parents |-> "Idle"]
    /\ local = [p \in Parents |-> ZeroLocal]
    /\ result = [p \in Parents |-> NotRun]
    /\ passes = [p \in Parents |-> 0]
    /\ hist = [p \in Parents |-> ZeroHist(services[p])]
    /\ configMaps = EmptyMap
    /\ cmCalls = <<>>
    /\ cmLog = <<>>

\* one parent is reconciled, over every input
Init ==
    \E svc \in InferenceServices("isvc-a") :
        InitWith({"isvc-a"},
                 [p \in Parents |-> IF p = "isvc-a" THEN svc
                                    ELSE DefaultInferenceService(p)])

----------------------------------------------------------------------------
(* Predictor.Reconcile, step by step *)

\* entry to line 76: the predictor implementation, the annotation map, the
\* sidecar flags and the desired object's metadata
ReconcileBuildAnnotations(p) ==
    /\ p \in watched
    /\ pc[p] = "Idle"
    /\ passes[p] < MaxPasses
    /\ LET svc == isvc[p]
           predictor == GetImplementation(svc)
           filtered == FilteredAnnotations(svc, ServiceAnnotationDisallowedList)
           stored == WithStorageUri(filtered, GetStorageUri(svc, predictor))
           logged == addLoggerAnnotations(svc.Logger, stored)
           batched == addBatcherAnnotations(svc.Batcher, logged.annotations)
       IN  /\ local' = [local EXCEPT ![p] =
                 [predictor |-> predictor,
                  annotations |-> batched.annotations,
                  hasInferenceLogging |-> logged.present,
                  hasInferenceBatcher |-> batched.present,
                  objectMeta |-> ObjectMeta(svc, batched.annotations),
                  r |-> Nil]]
           /\ hist' = [hist EXCEPT ![p] =
                 [entry |-> svc,
                  annotationsBeforeBatcher |-> logged.annotations,
                  built |-> Nil,
                  desired |-> Nil,
                  prevDesired |-> hist[p].desired,
                  ownerErr |-> Nil,
                  delegateCalls |-> 0,
                  delegateReturned |-> Nil]]
           /\ isvc' = [isvc EXCEPT ![p].Annotations =
                 ParentAnnotations(svc, batched.annotations)]
    /\ passes' = [passes EXCEPT ![p] = @ + 1]
    /\ pc' = [pc EXCEPT ![p] = "AnnotationsBuilt"]
    /\ UNCHANGED <<ServiceAnnotationDisallowedList, watched, result>>
    /\ UNCHANGED configMapVars

\* lines 77-91: build the container and install it as container[0] of the
\* custom pod template; indexing an empty container list panics
ReconcileBuildContainer(p) ==
    /\ pc[p] = "AnnotationsBuilt"
    /\ IF ContainerIndexOutOfRange(isvc[p])
       THEN /\ pc' = [pc EXCEPT ![p] = "Panicked"]
            /\ UNCHANGED <<isvc, hist>>
       ELSE LET container == GetContainer(isvc[p], local[p].predictor)
            IN  /\ isvc' = [isvc EXCEPT ![p].Custom =
                                 InstallContainer(isvc[p], container)]
                /\ hist' = [hist EXCEPT ![p].built = Some(container)]
                /\ pc' = [pc EXCEPT ![p] = "ContainerBuilt"]
    /\ UNCHANGED <<ServiceAnnotationDisallowedList, watched, local, result, passes>>
    /\ UNCHANGED configMapVars

\* lines 94-104: patch the sidecar ports and construct the delegate
ReconcilePatchPorts(p) ==
    /\ pc[p] = "ContainerBuilt"
    /\ LET custom == PatchPorts(isvc[p].Custom, local[p].hasInferenceLogging,
                                local[p].hasInferenceBatcher)
       IN  /\ isvc' = [isvc EXCEPT ![p].Custom = custom]
           /\ local' = [local EXCEPT ![p].r =
                 Some([ObjectMeta |-> local[p].objectMeta,
                       componentStatus |-> isvc[p].Status,
                       OwnerReferences |-> {}])]
           /\ hist' = [hist EXCEPT ![p].desired =
                 Some([ObjectMeta |-> local[p].objectMeta,
                       Container |-> Deref(custom).Containers[1]])]
    /\ pc' = [pc EXCEPT ![p] = "PortsPatched"]
    /\ UNCHANGED <<ServiceAnnotationDisallowedList, watched, result, passes>>
    /\ UNCHANGED configMapVars

\* lines 106-108: controllerutil.SetControllerReference(isvc, r.Service)
ReconcileSetControllerReference(p) ==
    /\ pc[p] = "PortsPatched"
    /\ \E fails \in BOOLEAN :
          LET set == SetControllerReference(isvc[p], Deref(local[p].r), fails)
          IN  /\ local' = [local EXCEPT ![p].r = Some(set.object)]
              /\ hist' = [hist EXCEPT ![p].ownerErr = Some(set.err)]
              /\ IF ReturnsOnOwnershipError(set.err)
                 THEN /\ result' = [result EXCEPT ![p] = set.err]
                      /\ pc' = [pc EXCEPT ![p] = "Idle"]
                 ELSE /\ pc' = [pc EXCEPT ![p] = "OwnershipEstablished"]
                      /\ UNCHANGED result
    /\ UNCHANGED <<ServiceAnnotationDisallowedList, watched, isvc, passes>>
    /\ UNCHANGED configMapVars

\* lines 109-114: r.Reconcile(), then the status is propagated or the error
\* returned
ReconcileDelegate(p) ==
    /\ pc[p] = "OwnershipEstablished"
    /\ \E status \in DelegateStatuses,
          err \in {ReturnedNil, ErrDelegateReconcile} :
          LET after == AfterDelegate(isvc[p], status, err)
          IN  /\ hist' = [hist EXCEPT
                     ![p].delegateCalls = @ + 1,
                     ![p].delegateReturned = Some([status |-> status, err |-> err])]
              /\ isvc' = [isvc EXCEPT ![p] = after.svc]
              /\ result' = [result EXCEPT ![p] = after.ret]
    /\ pc' = [pc EXCEPT ![p] = "Idle"]
    /\ UNCHANGED <<ServiceAnnotationDisallowedList, watched, local, passes>>
    /\ UNCHANGED configMapVars

Next ==
    \E p \in Parents :
        \/ ReconcileBuildAnnotations(p)
        \/ ReconcileBuildContainer(p)
        \/ ReconcilePatchPorts(p)
        \/ ReconcileSetControllerReference(p)
        \/ ReconcileDelegate(p)

Spec == Init /\ [][Next]_vars

----------------------------------------------------------------------------
(* Passes for two parents running concurrently on one Predictor *)

\* a few contrasting parents: the two parents differ in name, namespace,
\* labels and annotations
ConcurrentInferenceServices(p) ==
    { svc \in InferenceServices(p) :
        /\ svc.Status = EmptyStatus
        /\ IF p = "isvc-a" THEN "team" \in DOMAIN svc.Annotations
                            /\ "team" \in DOMAIN svc.Labels
                            /\ MinScaleAnnotationKey \in DOMAIN svc.Annotations
           ELSE LoggerSinkUrlInternalAnnotationKey \in DOMAIN svc.Annotations
        /\ \/ svc.Logger = Nil /\ svc.Batcher = Nil
           \/ /\ svc.Logger # Nil /\ Deref(svc.Logger).URL # Nil
              /\ svc.Batcher # Nil /\ Deref(svc.Batcher).MaxBatchSize = Some(32)
        /\ \/ svc.Builtin # Nil /\ Deref(svc.Builtin).StorageURI # Nil
           \/ svc.Custom # Nil /\ Len(Deref(svc.Custom).Containers) # 1 }

\* both parents are reconciled
InitConc ==
    \E services \in [Parents -> UNION {ConcurrentInferenceServices(p) : p \in Parents}] :
        /\ \A p \in Parents : services[p] \in ConcurrentInferenceServices(p)
        /\ InitWith(Parents, services)

\* the steps of the two passes interleave
SpecConc == InitConc /\ [][Next]_vars

----------------------------------------------------------------------------
(* The control loop re-invoking Reconcile until the collaborators succeed *)

\* the calls to SetControllerReference and to the delegate made by p's
\* invocations after the first MaxFailures ones succeed
CollaboratorsRecovered(p) ==
    passes[p] > MaxFailures
    => /\ hist[p].ownerErr \in {Nil, Some(ReturnedNil)}
       /\ \/ hist[p].delegateReturned = Nil
          \/ Deref(hist[p].delegateReturned).err = ReturnedNil

\* a step of p's invocation, or the control loop invoking Reconcile for p
LiveStep(p) ==
    /\ \/ ReconcileBuildAnnotations(p)
       \/ ReconcileBuildContainer(p)
       \/ ReconcilePatchPorts(p)
       \/ ReconcileSetControllerReference(p)
       \/ ReconcileDelegate(p)
    /\ CollaboratorsRecovered(p)'

NextLive == \E p \in Parents : LiveStep(p)

\* the invocation keeps running, and the control loop keeps invoking
SpecLive ==
    Init /\ [][NextLive]_vars /\ \A p \in Parents : WF_vars(LiveStep(p))

----------------------------------------------------------------------------
(* ConfigMapReconciler.Reconcile *)

ConfigMapKeys == {"modelconfig-a", "modelconfig-b"}

ConfigMapData == {"models-v1", "models-v2"}

\* client.Create: the error it returns and the store it leaves
Create(store, key, data, serverFails) ==
    IF serverFails THEN [err |-> ErrCreateFailed, store |-> store]
    ELSE IF HasKey(store, key) THEN [err |-> ErrAlreadyExists, store |-> store]
    ELSE [err |-> ReturnedNil, store |-> MapSet(store, key, data)]

\* a variant that treats "already exists" as success
ReturnAfterCreateIgnoresExists(err) ==
    IF err = ErrAlreadyExists THEN ReturnedNil ELSE err

\* lines 226-229: what Reconcile returns after client.Create returned err
ReturnAfterCreate(err) == IF err # ReturnedNil THEN err ELSE ReturnedNil

\* lines 217-230: both branches on trainedModel.DeletionTimestamp are empty,
\* then the desired ConfigMap is created
ConfigMapReconcile(key, data, deletionTimestampSet, serverFails) ==
    /\ Len(cmLog) < MaxConfigMapCalls
    /\ LET created == Create(configMaps, key, data, serverFails)
       IN  /\ configMaps' = created.store
           /\ cmCalls' = Append(cmCalls,
                  [op |-> "Create", key |-> key,
                   invocation |-> Len(cmLog) + 1,
                   deletionTimestampSet |-> deletionTimestampSet,
                   err |-> created.err])
           /\ cmLog' = Append(cmLog,
                  [key |-> key, data |-> data,
                   deletionTimestampSet |-> deletionTimestampSet,
                   storeBefore |-> configMaps,
                   storeAfter |-> created.store,
                   err |-> ReturnAfterCreate(created.err)])
    /\ UNCHANGED predictorVars

InitConfigMap ==
    InitWith({}, [p \in Parents |-> DefaultInferenceService(p)])

NextConfigMap ==
    \E key \in ConfigMapKeys, data \in ConfigMapData,
       deletionTimestampSet \in BOOLEAN, serverFails \in BOOLEAN :
        ConfigMapReconcile(key, data, deletionTimestampSet, serverFails)

SpecConfigMap == InitConfigMap /\ [][NextConfigMap]_vars

----------------------------------------------------------------------------
(* Properties *)

\* the invocation of p has built its annotation map (and has not been
\* followed by a later invocation)
AnnotationsBuilt(p) == local[p].predictor # ""

\* the last invocation of p has returned
Returned(p) == pc[p] = "Idle" /\ passes[p] > 0

PortsOf(container) == {container.Ports[i] : i \in DOMAIN container.Ports}

\* C1 (status isolation on failure): when the delegate's reconcile returned
\* an error, Reconcile has returned an error and the parent's predictor status
\* is the one it had when Reconcile was entered.
C1_StatusIsolationOnFailure ==
    \A p \in Parents :
        ( /\ Returned(p)
          /\ hist[p].delegateReturned # Nil
          /\ Deref(hist[p].delegateReturned).err # ReturnedNil )
        => /\ result[p] = Deref(hist[p].delegateReturned).err
           /\ isvc[p].Status = hist[p].entry.Status

C1_Witness ==
    \E p \in Parents :
        /\ Returned(p)
        /\ hist[p].delegateReturned =
              Some([status |-> "NotReady", err |-> ErrDelegateReconcile])
        /\ hist[p].entry.Status = "Ready"

\* C2 (idempotence): the desired object of a pass (object metadata with its
\* annotation map, and container[0] with its ports) equals the desired object
\* of the pass before it on the same in-memory parent.
C2_Idempotence ==
    \A p \in Parents :
        (hist[p].desired # Nil /\ hist[p].prevDesired # Nil)
        => hist[p].desired = hist[p].prevDesired

C2_Witness ==
    \E p \in Parents :
        /\ passes[p] = 2
        /\ hist[p].desired # Nil
        /\ hist[p].prevDesired # Nil
        /\ hist[p].entry.Builtin = Nil
        /\ hist[p].entry.Logger # Nil
        /\ Deref(hist[p].desired).Container.Ports = <<9081>>

\* C3 (both sidecar ports): with a logger and a batcher, container[0] exposes
\* the logging port and the batching port once the ports are patched.
C3_BothSidecarPorts ==
    \A p \in Parents :
        ( /\ pc[p] = "PortsPatched"
          /\ isvc[p].Logger # Nil
          /\ isvc[p].Batcher # Nil )
        => {Atoi(InferenceServiceDefaultLoggerPort),
            Atoi(InferenceServiceDefaultBatcherPort)}
              \subseteq PortsOf(Deref(isvc[p].Custom).Containers[1])

\* C4 (deletion branch): no create call is issued by an invocation whose
\* trained model carries a deletion timestamp.
C4_DeletionNeverCreates ==
    \A i \in DOMAIN cmCalls :
        cmCalls[i].op = "Create" => ~cmCalls[i].deletionTimestampSet

\* C5 (single populated variant): after the container is installed exactly
\* one implementation variant is populated, and it is the custom one.
C5_SinglePopulatedVariant ==
    \A p \in Parents :
        pc[p] = "ContainerBuilt"
        => (isvc[p].Custom # Nil /\ isvc[p].Builtin = Nil)

\* the keys the reconciler itself sets on the annotation map for this parent
LayeredKeys(svc) ==
    (IF GetStorageUri(svc, GetImplementation(svc)) # Nil
     THEN {StorageInitializerSourceUriInternalAnnotationKey} ELSE {})
    \cup (IF svc.Logger = Nil THEN {}
          ELSE {LoggerInternalAnnotationKey, LoggerModeInternalAnnotationKey}
               \cup (IF Deref(svc.Logger).URL # Nil
                     THEN {LoggerSinkUrlInternalAnnotationKey} ELSE {}))
    \cup (IF svc.Batcher = Nil THEN {}
          ELSE {BatcherInternalAnnotationKey}
               \cup (IF Deref(svc.Batcher).MaxBatchSize # Nil
                     THEN {BatcherMaxBatchSizeInternalAnnotationKey} ELSE {})
               \cup (IF Deref(svc.Batcher).MaxLatency # Nil
                     THEN {BatcherMaxLatencyInternalAnnotationKey} ELSE {})
               \cup (IF Deref(svc.Batcher).Timeout # Nil
                     THEN {BatcherTimeoutInternalAnnotationKey} ELSE {}))

\* C6 as stated (filtering): no disallowed key is in the annotation map of the
\* desired object, whatever is layered in after the filter.
C6_DisallowedAbsent ==
    \A p \in Parents :
        AnnotationsBuilt(p)
        => \A K \in ServiceAnnotationDisallowedList :
              ~HasKey(local[p].objectMeta.Annotations, K)

\* C6 as amended: a disallowed key is in the annotation map of the desired
\* object only when the reconciler itself sets it in that pass, and then with
\* the reconciler's value (storage URI, logger URL), not the parent's.
C6_DisallowedOnlyWhenLayered ==
    \A p \in Parents :
        AnnotationsBuilt(p)
        => \A K \in ServiceAnnotationDisallowedList :
              HasKey(local[p].objectMeta.Annotations, K)
              => /\ K \in LayeredKeys(hist[p].entry)
                 /\ K = StorageInitializerSourceUriInternalAnnotationKey
                    => local[p].objectMeta.Annotations[K] =
                         Deref(GetStorageUri(hist[p].entry,
                                             GetImplementation(hist[p].entry)))
                 /\ K = LoggerSinkUrlInternalAnnotationKey
                    => local[p].objectMeta.Annotations[K] =
                         Deref(Deref(hist[p].entry.Logger).URL)

C6_Witness ==
    \E p \in Parents :
        /\ AnnotationsBuilt(p)
        /\ StorageInitializerSourceUriInternalAnnotationKey
              \in ServiceAnnotationDisallowedList
        /\ HasKey(hist[p].entry.Annotations,
                  StorageInitializerSourceUriInternalAnnotationKey)
        /\ HasKey(local[p].objectMeta.Annotations,
                  StorageInitializerSourceUriInternalAnnotationKey)
        /\ local[p].objectMeta.Annotations[
              StorageInitializerSourceUriInternalAnnotationKey]
              = "gs://bucket/model"

\* C7 (custom override preservation): for a parent entering with a custom pod
\* template of n >= 1 containers, container[0] is the built container once it
\* is installed, and the containers 1..n-1, the volumes and the service
\* account are those the parent entered with, through the end of the pass.
C7_CustomOverridePreserved ==
    \A p \in Parents :
        ( /\ pc[p] \in {"ContainerBuilt", "PortsPatched", "OwnershipEstablished"}
          /\ hist[p].entry.Custom # Nil )
        => LET before == Deref(hist[p].entry.Custom)
               after == Deref(isvc[p].Custom)
           IN  /\ Len(after.Containers) = Len(before.Containers)
               /\ \A i \in 2..Len(before.Containers) :
                     after.Containers[i] = before.Containers[i]
               /\ after.Volumes = before.Volumes
               /\ after.ServiceAccountName = before.ServiceAccountName
               /\ pc[p] = "ContainerBuilt"
                  => after.Containers[1] = Deref(hist[p].built)

C7_Witness ==
    \E p \in Parents :
        /\ pc[p] = "ContainerBuilt"
        /\ hist[p].entry.Custom # Nil
        /\ Len(Deref(hist[p].entry.Custom).Containers) = 2
        /\ Deref(isvc[p].Custom).Containers[2] = SidecarContainer
        /\ Deref(isvc[p].Custom).Volumes = {"model-volume"}

\* C8 (ownership before delegation): the delegate's reconcile is only ever
\* called on an object that already carries the owner reference to the
\* parent; when setting the reference failed, Reconcile has returned that
\* error, the delegate was not called and the status is the one at entry.
C8_OwnershipBeforeDelegation ==
    \A p \in Parents :
        /\ hist[p].delegateCalls > 0
           => /\ local[p].r # Nil
              /\ Deref(local[p].r).OwnerReferences = {isvc[p].Name}
              /\ hist[p].ownerErr = Some(ReturnedNil)
        /\ (hist[p].ownerErr # Nil /\ Deref(hist[p].ownerErr) # ReturnedNil)
           => /\ pc[p] = "Idle"
              /\ result[p] = Deref(hist[p].ownerErr)
              /\ hist[p].delegateCalls = 0
              /\ isvc[p].Status = hist[p].entry.Status

C8_Witness ==
    \E p \in Parents :
        /\ Returned(p)
        /\ hist[p].ownerErr = Some(ErrSetControllerReference)
        /\ hist[p].entry.Status = "Ready"
        /\ passes[p] = 2

\* C9 (logger flag correctness): with a logger that has no sink URL, the
\* annotation map has logging-enabled "true", logging-mode equal to the
\* logger's mode, and no sink-URL key, whatever non-disallowed annotations the
\* parent carries.
C9_LoggerFlags ==
    \A p \in Parents :
        ( /\ AnnotationsBuilt(p)
          /\ hist[p].entry.Logger # Nil
          /\ Deref(hist[p].entry.Logger).URL = Nil )
        => LET a == local[p].objectMeta.Annotations
           IN  /\ HasKey(a, LoggerInternalAnnotationKey)
               /\ a[LoggerInternalAnnotationKey] = "true"
               /\ HasKey(a, LoggerModeInternalAnnotationKey)
               /\ a[LoggerModeInternalAnnotationKey] =
                     Deref(hist[p].entry.Logger).Mode
               /\ ~HasKey(a, LoggerSinkUrlInternalAnnotationKey)

\* the decimal strings of the integers the batcher specifications carry
DecimalString(n) ==
    CASE n = 32 -> "32" [] n = 100 -> "100" [] n = 60 -> "60"
      [] n = 7 -> "7" [] n = 0 -> "0" [] n = -1 -> "-1"

\* key k of the map is the same before and after
SameAt(before, after, k) ==
    /\ HasKey(after, k) <=> HasKey(before, k)
    /\ HasKey(before, k) => after[k] = before[k]

\* field (a pointer) is written under key as its decimal string when it is
\* set, and key is left alone when it is not
EncodedAt(before, after, field, key) ==
    IF field # Nil
    THEN HasKey(after, key) /\ after[key] = DecimalString(Deref(field))
    ELSE SameAt(before, after, key)

\* C10 (batcher numeric encoding): for a batcher that is present,
\* addBatcherAnnotations sets batching-enabled "true", writes each of
\* max-batch-size, max-latency and timeout as the decimal string of its
\* integer exactly when the field is present, and changes no other key.
C10_BatcherEncoding ==
    \A p \in Parents :
        (AnnotationsBuilt(p) /\ hist[p].entry.Batcher # Nil)
        => LET b == Deref(hist[p].entry.Batcher)
               before == hist[p].annotationsBeforeBatcher
               after == local[p].annotations
           IN  /\ local[p].hasInferenceBatcher
               /\ HasKey(after, BatcherInternalAnnotationKey)
               /\ after[BatcherInternalAnnotationKey] = "true"
               /\ EncodedAt(before, after, b.MaxBatchSize,
                            BatcherMaxBatchSizeInternalAnnotationKey)
               /\ EncodedAt(before, after, b.MaxLatency,
                            BatcherMaxLatencyInternalAnnotationKey)
               /\ EncodedAt(before, after, b.Timeout,
                            BatcherTimeoutInternalAnnotationKey)
               /\ \A k \in (DOMAIN before \cup DOMAIN after) \
                           {BatcherInternalAnnotationKey,
                            BatcherMaxBatchSizeInternalAnnotationKey,
                            BatcherMaxLatencyInternalAnnotationKey,
                            BatcherTimeoutInternalAnnotationKey} :
                     SameAt(before, after, k)

C10_Witness ==
    \E p \in Parents :
        /\ AnnotationsBuilt(p)
        /\ hist[p].entry.Batcher =
              Some([MaxBatchSize |-> Some(7), MaxLatency |-> Nil,
                    Timeout |-> Some(0)])
        /\ HasKey(hist[p].annotationsBeforeBatcher,
                  BatcherMaxBatchSizeInternalAnnotationKey)
        /\ hist[p].annotationsBeforeBatcher[
              BatcherMaxBatchSizeInternalAnnotationKey] = "999"
        /\ local[p].annotations[BatcherMaxBatchSizeInternalAnnotationKey] = "7"
        /\ local[p].annotations[BatcherTimeoutInternalAnnotationKey] = "0"
        /\ ~HasKey(local[p].annotations, BatcherMaxLatencyInternalAnnotationKey)

\* C11 (port exclusivity): the logging port patch leaves a container that had
\* no ports with exactly the one port 9081, leaves a container that declares
\* ports with the ports it had, and applied once more changes nothing.
C11_PortExclusivity ==
    \A p \in Parents :
        (pc[p] = "PortsPatched" /\ local[p].hasInferenceLogging)
        => LET before == Deref(hist[p].built)
               after == Deref(isvc[p].Custom).Containers[1]
           IN  /\ Len(before.Ports) = 0 => after.Ports = <<9081>>
               /\ Len(before.Ports) >= 1 => after.Ports = before.Ports
               /\ addLoggerContainerPort(after) = after
               /\ [after EXCEPT !.Ports = before.Ports] = before

C11_Witness ==
    \E p \in Parents :
        /\ pc[p] = "PortsPatched"
        /\ local[p].hasInferenceLogging
        /\ passes[p] = 2
        /\ Deref(hist[p].built).Ports = <<9081>>
        /\ Deref(isvc[p].Custom).Containers[1].Ports = <<9081>>

\* C12 (no swallowed or retried errors): an invocation calls the delegate's
\* reconcile at most once; it has returned nil exactly when setting the owner
\* reference and the delegate's reconcile both succeeded, and then the status
\* is the one the delegate returned; otherwise it has returned the error of
\* the call that failed.
C12_NoSwallowedOrRetriedErrors ==
    \A p \in Parents :
        /\ hist[p].delegateCalls <= 1
        /\ Returned(p)
           => LET ownerOk == hist[p].ownerErr = Some(ReturnedNil)
                  delegateOk ==
                      /\ hist[p].delegateReturned # Nil
                      /\ Deref(hist[p].delegateReturned).err = ReturnedNil
              IN  /\ result[p] = ReturnedNil <=> (ownerOk /\ delegateOk)
                  /\ result[p] = ReturnedNil
                     => isvc[p].Status = Deref(hist[p].delegateReturned).status
                  /\ ~ownerOk
                     => /\ hist[p].ownerErr = Some(ErrSetControllerReference)
                        /\ result[p] = ErrSetControllerReference
                  /\ (ownerOk /\ ~delegateOk)
                     => /\ hist[p].delegateCalls = 1
                        /\ result[p] = Deref(hist[p].delegateReturned).err
                        /\ result[p] = ErrDelegateReconcile

C12_Witness ==
    \E p \in Parents :
        /\ Returned(p)
        /\ passes[p] = 2
        /\ result[p] = ReturnedNil
        /\ hist[p].delegateCalls = 1
        /\ hist[p].entry.Status = "Ready"
        /\ isvc[p].Status = "NotReady"

\* the client calls issued by the i-th invocation of
\* ConfigMapReconciler.Reconcile
CallsOf(i) == {j \in DOMAIN cmCalls : cmCalls[j].invocation = i}

\* C13 (unconditional create): every invocation issues exactly one create
\* call, for the desired ConfigMap; when a ConfigMap with that key exists the
\* call fails, Reconcile returns the call's error and the stored ConfigMaps
\* are left as they were.
C13_UnconditionalCreate ==
    \A i \in DOMAIN cmLog :
        /\ Cardinality(CallsOf(i)) = 1
        /\ \A j \in CallsOf(i) :
              /\ cmCalls[j].op = "Create"
              /\ cmCalls[j].key = cmLog[i].key
              /\ cmLog[i].err = cmCalls[j].err
              /\ HasKey(cmLog[i].storeBefore, cmLog[i].key)
                 => /\ cmCalls[j].err \in {ErrAlreadyExists, ErrCreateFailed}
                    /\ cmLog[i].storeAfter = cmLog[i].storeBefore

C13_Witness ==
    /\ Len(cmLog) >= 2
    /\ cmLog[1].err = ReturnedNil
    /\ cmLog[2].key = cmLog[1].key
    /\ ~cmLog[2].deletionTimestampSet
    /\ cmLog[2].err = ErrAlreadyExists
    /\ cmLog[2].storeAfter = cmLog[2].storeBefore
    /\ HasKey(configMaps, cmLog[1].key)
    /\ configMaps[cmLog[1].key] = cmLog[1].data

\* the last invocation of p returned nil and left the delegate's status
Converged(p) ==
    /\ Returned(p)
    /\ result[p] = ReturnedNil
    /\ hist[p].delegateReturned # Nil
    /\ isvc[p].Status = Deref(hist[p].delegateReturned).status

\* C14 (level-triggered convergence): with the control loop re-invoking
\* Reconcile and the collaborators' calls succeeding from some invocation on,
\* every watched parent eventually has a pass that returned nil and left the
\* delegate's status; no pass calls the delegate more than once.
C14_Convergence ==
    /\ \A p \in Parents : (p \in watched) ~> Converged(p)
    /\ [](\A p \in Parents : hist[p].delegateCalls <= 1)

\* the same for the parents whose pass does not panic
C14_ConvergenceUnlessPanicked ==
    /\ \A p \in Parents :
          (p \in watched) ~> (Converged(p) \/ pc[p] = "Panicked")
    /\ [](\A p \in Parents : hist[p].delegateCalls <= 1)

\* what a pass for svc running alone computes: the annotation map, the custom
\* pod template and the desired object
AloneAnnotations(svc, disallowed) ==
    LET predictor == GetImplementation(svc)
        filtered == FilteredAnnotations(svc, disallowed)
        stored == WithStorageUri(filtered, GetStorageUri(svc, predictor))
        logged == addLoggerAnnotations(svc.Logger, stored)
    IN  addBatcherAnnotations(svc.Batcher, logged.annotations).annotations

AloneCustom(svc) ==
    PatchPorts(InstallContainer(svc, GetContainer(svc, GetImplementation(svc))),
               svc.Logger # Nil, svc.Batcher # Nil)

AloneDesired(svc, disallowed) ==
    [ObjectMeta |->
        [Name |-> svc.Name \o "-" \o PredictorComponent,
         Namespace |-> svc.Namespace,
         Labels |-> [k \in DOMAIN svc.Labels
                           \cup {InferenceServicePodLabelKey, KServiceComponentLabel} |->
                       IF k = InferenceServicePodLabelKey THEN svc.Name
                       ELSE IF k = KServiceComponentLabel THEN PredictorComponent
                       ELSE svc.Labels[k]],
         Annotations |-> AloneAnnotations(svc, disallowed)],
     Container |-> Deref(AloneCustom(svc)).Containers[1]]

\* the part of the state that belongs to parent p
StateOf(p) == <<isvc[p], pc[p], local[p], result[p], passes[p], hist[p]>>

C16_ObjectIdentity ==
    \A p \in Parents :
        hist[p].desired # Nil
        => LET meta == Deref(hist[p].desired).ObjectMeta
               parent == hist[p].entry
           IN  /\ meta.Name = (IF p = "isvc-a" THEN "isvc-a-predictor"
                               ELSE "isvc-b-predictor")
               /\ meta.Namespace = parent.Namespace
               /\ DOMAIN meta.Labels =
                     DOMAIN parent.Labels
                       \cup {InferenceServicePodLabelKey, KServiceComponentLabel}
               /\ meta.Labels[InferenceServicePodLabelKey] = p
               /\ meta.Labels[KServiceComponentLabel] = "predictor"
               /\ \A k \in DOMAIN parent.Labels
                           \ {InferenceServicePodLabelKey, KServiceComponentLabel} :
                      meta.Labels[k] = parent.Labels[k]

\* a desired object built for a parent whose own labels use a system label key
C16_Witness ==
    /\ hist["isvc-a"].desired # Nil
    /\ KServiceComponentLabel \in DOMAIN hist["isvc-a"].entry.Labels
    /\ hist["isvc-a"].entry.Labels[KServiceComponentLabel] = "transformer"
    /\ "team" \in DOMAIN Deref(hist["isvc-a"].desired).ObjectMeta.Labels

\* C17 (storage-source annotation): when the predictor implementation has a
\* storage URI, the desired object's storage-source annotation is that URI,
\* whatever the parent's annotations said; when it has none, the reconciler
\* adds no such annotation: the key is there only as a kept parent annotation,
\* with the parent's value.
C17_StorageSourceAnnotation ==
    \A p \in Parents :
        hist[p].desired # Nil
        => LET annotations == Deref(hist[p].desired).ObjectMeta.Annotations
               parent == hist[p].entry
               sourceURI == GetStorageUri(parent, GetImplementation(parent))
               key == StorageInitializerSourceUriInternalAnnotationKey
           IN  IF sourceURI # Nil
               THEN key \in DOMAIN annotations
                    /\ annotations[key] = Deref(sourceURI)
               ELSE /\ key \in DOMAIN annotations
                       <=> /\ key \in DOMAIN parent.Annotations
                           /\ ~Includes(ServiceAnnotationDisallowedList, key)
                    /\ key \in DOMAIN annotations
                       => annotations[key] = parent.Annotations[key]

\* the implementation's URI has replaced a different value that the parent's
\* annotations carried and the filter let through
C17_Witness ==
    LET parent == hist["isvc-a"].entry
        key == StorageInitializerSourceUriInternalAnnotationKey
    IN  /\ hist["isvc-a"].desired # Nil
        /\ ~Includes(ServiceAnnotationDisallowedList, key)
        /\ key \in DOMAIN parent.Annotations
        /\ parent.Annotations[key] = "gs://user-annotation"
        /\ Deref(hist["isvc-a"].desired).ObjectMeta.Annotations[key]
              = "gs://bucket/model"

\* C18 (frame on the parent): during and after a pass the parent's name,
\* namespace, labels and annotations, and its builtin runtime, logger and
\* batcher, are what they were on entry, whether the pass succeeds or fails;
\* only the custom pod template changes, and the status only when the pass
\* returned nil.
C18_FrameOnParent ==
    \A p \in Parents :
        passes[p] > 0
        => LET parent == hist[p].entry
           IN  /\ isvc[p].Name = parent.Name
               /\ isvc[p].Namespace = parent.Namespace
               /\ isvc[p].Labels = parent.Labels
               /\ isvc[p].Annotations = parent.Annotations
               /\ isvc[p].Builtin = parent.Builtin
               /\ isvc[p].Logger = parent.Logger
               /\ isvc[p].Batcher = parent.Batcher
               /\ isvc[p].Status # parent.Status
                  => Returned(p) /\ result[p] = ReturnedNil

\* a failed pass that synthesized annotations and labels other than the
\* parent's and replaced the custom pod template
C18_Witness ==
    /\ Returned("isvc-a")
    /\ result["isvc-a"] = ErrDelegateReconcile
    /\ isvc["isvc-a"].Custom # hist["isvc-a"].entry.Custom
    /\ local["isvc-a"].annotations # isvc["isvc-a"].Annotations
    /\ local["isvc-a"].objectMeta.Labels # isvc["isvc-a"].Labels

\* C19 (no out-of-range container access): no pass indexes container[0] of
\* an empty container list; every pass ends by returning, never by panicking.
C19_NoOutOfRangeAccess == \A p \in Parents : pc[p] # "Panicked"

====
